---- MODULE Spec2Model ----
(***************************************************************************)
(* Voice agent: the voice-activity / turn-detection state machine           *)
(* (src/src/audio/vad.py) and the turn-orchestration loop                   *)
(* (src/src/agent.py) with its recorder and metrics collaborators.          *)
(*                                                                          *)
(* Time is counted in ticks of 100 ms, TicksPerSecond ticks to the second.  *)
(* A frame is a chunk of chunk_size signed 16-bit samples.  A frame in the  *)
(* recorder's buffer is identified by its capture sequence number.          *)
(***************************************************************************)
EXTENDS Integers, Sequences, FiniteSets, TLC

\* --------------------------------------------------------------- time unit
\* time.time() is read to a resolution of 100 ms.
TicksPerSecond == 10

\* ------------------------------------------------------------------ bounds
\* The shortest time between two reads of the clock in the free-running
\* specifications, the last instant they reach, the samples to a chunk, and the
\* number of frames fed at a fixed cadence, and the largest magnitude among
\* the samples the volume estimator is tried on next to the ends of the range.
FrameTicks == 5
MaxTime == 102
chunk_size == 1
MaxCadenceFrames == 22
MaxSample == 200
\* The chunks the audio device holds for a reader that is not reading, and the
\* chunks the microphone produces in the specification of the capture path.
DeviceCapacity == 2
MaxProduced == 12
\* The number of calls made on a metrics collector tried on its own.
MaxMetricsCalls == 8
\* The longest conversation history the language-model service is tried on.
MaxHistory == 14
\* The chunks read by a recorder tried on its own.
MaxRecorded == 12

\* ------------------------------------------------- configuration (VADConfig)
silence_threshold == 25
speech_threshold == 45
speech_frame_threshold == 3
silence_frame_threshold == 5
silence_duration == 1 * TicksPerSecond
\* Configured, and read by no code of the detector or the loop.
max_endpointing_delay == 6 * TicksPerSecond

\* Python's None for the optional timestamps.
None == -1

\* Sample values a chunk is drawn from: quiet, the two thresholds, loud, and a
\* sample whose square does not fit 16 bits.
Samples == {10, 25, 45, 50, 200}

\* Time between two successive reads of the clock: FrameTicks, or longer than
\* silence_duration.
DtSet == {FrameTicks, silence_duration + 1}

Chunks == [1..chunk_size -> Samples]

\* The chunks the microphone delivers to the loop: quiet, in the band, loud.
LoopSamples == {10, 35, 50}
LoopChunks == [1..chunk_size -> LoopSamples]

\* ------------------------------------------------------- volume estimation
\* audio_data**2 on an int16 array: the product is kept in 16 bits.
Square16(s) ==
    LET m == (s * s) % 65536
    IN  IF m >= 32768 THEN m - 65536 ELSE m

Max(a, b) == IF a >= b THEN a ELSE b

RECURSIVE SumClampedSquares(_, _)
SumClampedSquares(audio_chunk, i) ==
    IF i = 0 THEN 0
    ELSE Max(Square16(audio_chunk[i]), 0) + SumClampedSquares(audio_chunk, i - 1)

\* volume = sqrt(mean(maximum(audio_data**2, 0))).  The model carries
\* volume^2 * chunk_size, the sum of the clamped squares, so that the
\* comparisons with the thresholds are exact.
Volume(audio_chunk) == SumClampedSquares(audio_chunk, chunk_size)

\* volume > threshold, volume < threshold on the carried value.
Above(volume, threshold) == volume > threshold * threshold * chunk_size
Below(volume, threshold) == volume < threshold * threshold * chunk_size

\* Python truthiness of an optional timestamp.
Truthy(t) == t # None /\ t # 0

\* ---------------------------------------------------------------- detector
NewDetector ==
    [is_speaking |-> FALSE,
     silence_start |-> None,
     speech_start |-> None,
     consecutive_speech_frames |-> 0,
     consecutive_silence_frames |-> 0]

\* Faulty variants of IsSpeech: ">=" for ">", and the comparison inverted.
IsSpeechMutGE(volume) == ~Below(volume, speech_threshold)
IsSpeechMutLT(volume) == Below(volume, speech_threshold)
IsSpeech(volume) == Above(volume, speech_threshold)

IsSilence(volume) == Below(volume, silence_threshold)

\* Faulty variant of SpeechConfirmed: ">" for ">=".
SpeechConfirmedMutGT(d) ==
    ~d.is_speaking /\ d.consecutive_speech_frames > speech_frame_threshold
SpeechConfirmed(d) ==
    ~d.is_speaking /\ d.consecutive_speech_frames >= speech_frame_threshold

\* Faulty variant of SilenceConfirmed: one frame late.
SilenceConfirmedMutGT(d) == d.consecutive_silence_frames > silence_frame_threshold
SilenceConfirmed(d) == d.consecutive_silence_frames >= silence_frame_threshold

\* Faulty variant of SilenceLongEnough: one tick late.
SilenceLongEnoughMutLate(duration) == duration > silence_duration + 1
SilenceLongEnough(duration) == duration > silence_duration

\* The counters after a frame above speech_threshold, and after a frame below
\* silence_threshold.
\* (Faulty variant: the silence frame leaves the speech counter alone.)
CountSpeechFrame(d) ==
    [d EXCEPT !.consecutive_speech_frames = @ + 1,
              !.consecutive_silence_frames = 0]
CountSilenceFrameMutKeepSpeech(d) ==
    [d EXCEPT !.consecutive_silence_frames = @ + 1]
CountSilenceFrame(d) ==
    [d EXCEPT !.consecutive_silence_frames = @ + 1,
              !.consecutive_speech_frames = 0]

\* The speech onset: is_speaking, speech_start, silence_start.
\* (Faulty variant: speech_start is not recorded.)
StartSpeakingMutNoStart(d, current_time) ==
    [d EXCEPT !.is_speaking = TRUE,
              !.silence_start = None]
StartSpeaking(d, current_time) ==
    [d EXCEPT !.is_speaking = TRUE,
              !.speech_start = current_time,
              !.silence_start = None]

\* The turn end: is_speaking, speech_start and silence_start are cleared.
\* (Faulty variants: the detector stays speaking; speech_start is kept.)
EndTurnMutStillSpeaking(d) ==
    [d EXCEPT !.speech_start = None,
              !.silence_start = None]
EndTurnMutKeepsStart(d) ==
    [d EXCEPT !.is_speaking = FALSE,
              !.silence_start = None]
EndTurn(d) ==
    [d EXCEPT !.is_speaking = FALSE,
              !.speech_start = None,
              !.silence_start = None]

SpeechBranch(d, volume, current_time) ==
    LET d1 == CountSpeechFrame(d)
        d2 == IF SpeechConfirmed(d1)
              THEN StartSpeaking(d1, current_time)
              ELSE d1
    IN  [vad |-> d2,
         result |-> [is_speaking |-> d2.is_speaking,
                     volume |-> volume,
                     speech_duration |->
                         IF Truthy(d2.speech_start) /\ d2.is_speaking
                         THEN current_time - d2.speech_start ELSE 0,
                     silence_duration |-> 0,
                     turn_ended |-> FALSE]]

SilenceBranch(d, volume, current_time) ==
    LET d1 == CountSilenceFrame(d)
        d2 == IF d1.is_speaking /\ SilenceConfirmed(d1) /\ d1.silence_start = None
              THEN [d1 EXCEPT !.silence_start = current_time]
              ELSE d1
        duration == current_time - d2.silence_start
    IN  IF d1.is_speaking
        THEN IF SilenceConfirmed(d1) /\ SilenceLongEnough(duration)
             THEN [vad |-> EndTurn(d2),
                   result |-> [is_speaking |-> FALSE,
                               volume |-> volume,
                               speech_duration |-> 0,
                               silence_duration |-> duration,
                               turn_ended |-> TRUE]]
             ELSE [vad |-> d2,
                   result |-> [is_speaking |-> TRUE,
                               volume |-> volume,
                               speech_duration |->
                                   IF Truthy(d2.speech_start)
                                   THEN current_time - d2.speech_start ELSE 0,
                               silence_duration |->
                                   IF Truthy(d2.silence_start)
                                   THEN current_time - d2.silence_start ELSE 0,
                               turn_ended |-> FALSE]]
        ELSE [vad |-> d1,
              result |-> [is_speaking |-> FALSE,
                          volume |-> volume,
                          speech_duration |-> 0,
                          silence_duration |->
                              IF Truthy(d1.silence_start)
                              THEN current_time - d1.silence_start ELSE 0,
                          turn_ended |-> FALSE]]

BetweenBranch(d, volume, current_time) ==
    LET d1 == [d EXCEPT !.consecutive_speech_frames = 0,
                        !.consecutive_silence_frames = 0]
    IN  [vad |-> d1,
         result |-> [is_speaking |-> d1.is_speaking,
                     volume |-> volume,
                     speech_duration |->
                         IF Truthy(d1.speech_start) /\ d1.is_speaking
                         THEN current_time - d1.speech_start ELSE 0,
                     silence_duration |->
                         IF Truthy(d1.silence_start) /\ ~d1.is_speaking
                         THEN current_time - d1.silence_start ELSE 0,
                     turn_ended |-> FALSE]]

detect_voice_activity(d, audio_chunk, current_time) ==
    LET volume == Volume(audio_chunk)
    IN  IF IsSpeech(volume) THEN SpeechBranch(d, volume, current_time)
        ELSE IF IsSilence(volume) THEN SilenceBranch(d, volume, current_time)
        ELSE BetweenBranch(d, volume, current_time)

\* Faulty variants of reset: the silence counter is left alone; is_speaking is
\* toggled instead of cleared.
resetMutKeepCounter(d) ==
    [d EXCEPT !.is_speaking = FALSE, !.silence_start = None, !.speech_start = None,
              !.consecutive_speech_frames = 0]
resetMutToggle(d) ==
    [d EXCEPT !.is_speaking = ~d.is_speaking, !.silence_start = None,
              !.speech_start = None,
              !.consecutive_speech_frames = 0, !.consecutive_silence_frames = 0]
reset(d) ==
    [d EXCEPT !.is_speaking = FALSE,
              !.silence_start = None,
              !.speech_start = None,
              !.consecutive_speech_frames = 0,
              !.consecutive_silence_frames = 0]

\* The dictionary a caller holds before the first frame is fed.
NoResult ==
    [is_speaking |-> FALSE, volume |-> 0, speech_duration |-> 0,
     silence_duration |-> 0, turn_ended |-> FALSE]

\* ------------------------------------------------------------------- state
VARIABLES
    now,          \* time.time() at the last read of the clock
    vad,          \* the VoiceActivityDetector's fields
    vad_result,   \* the dictionary detect_voice_activity returned last
    hist,         \* history of the frames fed to the detector (observation only)
    audio_data,   \* the samples handed to the volume estimator on its own
    is_running,          \* VoiceAgent.is_running
    current_turn_start,  \* VoiceAgent.current_turn_start
    loop_pc,      \* where _run_continuous_loop stands
    turn_pc,      \* the stage a _process_turn invocation is suspended in
    turn_local,   \* _process_turn's local variables
    recorder,     \* the AudioRecorder's fields
    captured,     \* number of frames read from the stream so far
    temp_audio,   \* the frames in the turn's temporary WAV file, <<>> when absent
    metrics,      \* the MetricsCollector's fields
    conversation_history,  \* LLMService.conversation_history
    obs,          \* history of the pipeline invocations (observation only)
    device        \* the audio device behind the stream: chunks produced, chunks held

detector_vars == <<vad, vad_result, hist, audio_data>>
agent_vars == <<is_running, current_turn_start, loop_pc, turn_pc, turn_local, recorder,
                captured, temp_audio, metrics, conversation_history, obs, device>>
vars == <<now, vad, vad_result, hist, audio_data, is_running, current_turn_start, loop_pc, turn_pc,
          turn_local, recorder, captured, temp_audio, metrics, conversation_history, obs,
          device>>

\* ------------------------------------------- observation of the frame stream
\* The class of a frame by its volume, as the thresholds define it.
FrameKind(volume) ==
    IF volume > speech_threshold * speech_threshold * chunk_size THEN "speech"
    ELSE IF volume < silence_threshold * silence_threshold * chunk_size THEN "silence"
    ELSE "between"

\* The frames of the worked example: two quiet frames, three loud ones, ten
\* quiet ones, 100 ms apart; the quiet goes on after the listed frames.
ScenarioVolumes == <<10, 10, 50, 50, 50, 10, 10, 10, 10, 10, 10, 10, 10, 10, 10>>
ScenarioVolume(k) == IF k <= Len(ScenarioVolumes) THEN ScenarioVolumes[k] ELSE 10
CadenceTicks == TicksPerSecond \div 10

\* The number of frames fed, while the frames fed since construction are the
\* first frames of the worked example; None once they are not.
ScenarioAfter(h, volume, t) ==
    IF /\ h.scenario # None
       /\ t = (h.scenario + 1) * CadenceTicks
       /\ volume = ScenarioVolume(h.scenario + 1) * ScenarioVolume(h.scenario + 1) * chunk_size
    THEN h.scenario + 1
    ELSE None

NoHist ==
    [last_op |-> "init",
     event |-> "Nothing",
     was_speaking |-> FALSE,
     run_kind |-> "none",
     run_len |-> 0,
     run_from_speaking |-> FALSE,
     run_confirm_at |-> None,
     run_turn_ends |-> 0,
     all_silent |-> TRUE,
     reset_streak |-> 0,
     scenario |-> 0]

\* The history after a frame of the given volume took the detector from d to d2
\* with result r at time t.
HistAfterFrame(h, d, d2, r, volume, t) ==
    LET kind == FrameKind(volume)
        same == h.run_kind = kind
        len == IF same THEN h.run_len + 1 ELSE 1
        ev == IF r.turn_ended THEN "TurnEnded"
              ELSE IF ~d.is_speaking /\ d2.is_speaking THEN "SpeechStarted"
              ELSE "Nothing"
    IN  [last_op |-> "detect",
         event |-> ev,
         was_speaking |-> d.is_speaking,
         run_kind |-> kind,
         run_len |-> len,
         run_from_speaking |-> IF same THEN h.run_from_speaking ELSE d.is_speaking,
         run_confirm_at |->
             IF kind = "silence" /\ len = silence_frame_threshold THEN t
             ELSE IF same THEN h.run_confirm_at ELSE None,
         run_turn_ends |->
             (IF same THEN h.run_turn_ends ELSE 0) + (IF ev = "TurnEnded" THEN 1 ELSE 0),
         all_silent |-> h.all_silent /\ kind = "silence",
         reset_streak |-> 0,
         scenario |-> ScenarioAfter(h, volume, t)]

HistAfterReset(h, d) ==
    [NoHist EXCEPT !.last_op = "reset",
                   !.was_speaking = d.is_speaking,
                   !.reset_streak = IF h.reset_streak >= 2 THEN 2 ELSE h.reset_streak + 1,
                   !.scenario = None]

\* ---------------------------------------------------------------- recorder
NewRecorder == [stream |-> "none", is_recording |-> FALSE, audio_buffer |-> <<>>]

\* (Faulty variant: a stream is opened and the buffer emptied on every call.)
start_recordingMutAlwaysOpens(r) ==
    [stream |-> "open", is_recording |-> TRUE, audio_buffer |-> <<>>]
start_recording(r) ==
    IF r.is_recording THEN r
    ELSE [stream |-> "open", is_recording |-> TRUE, audio_buffer |-> <<>>]

\* record_chunk returns None without reading when not recording.
CanRead(r) == r.is_recording /\ r.stream # "none"

\* A successful stream.read: the chunk, here its capture number, is appended.
record_chunk(r, frame) == [r EXCEPT !.audio_buffer = Append(@, frame)]

\* save_audio writes the whole buffer, and nothing when the buffer is empty.
\* (Faulty variant: the frames before the last speech_frame_threshold are left
\* out.)
save_audioMutClipped(r) ==
    IF Len(r.audio_buffer) <= speech_frame_threshold THEN r.audio_buffer
    ELSE SubSeq(r.audio_buffer, Len(r.audio_buffer) - speech_frame_threshold + 1,
                Len(r.audio_buffer))
save_audio(r) == r.audio_buffer

\* clear_buffer has no caller in the agent.
clear_buffer(r) == [r EXCEPT !.audio_buffer = <<>>]

\* (Faulty variant: the stream is left open and recording.)
stop_recordingMutLeftOpen(r) == r
stop_recording(r) ==
    IF ~r.is_recording THEN r
    ELSE [r EXCEPT !.is_recording = FALSE,
                   !.stream = IF @ = "none" THEN "none" ELSE "closed"]

\* ----------------------------------------------------------------- metrics
NewMetrics ==
    [current_turn |-> <<>>,
     turn_counter |-> 0,
     turns |-> <<>>,
     total_turns |-> 0,
     successful_turns |-> 0,
     failed_turns |-> 0,
     ended |-> FALSE]

\* current_turn is <<>> for None, else a one-element sequence.
start_turn(m) ==
    [m EXCEPT !.turn_counter = @ + 1,
              !.current_turn = <<[turn_id |-> m.turn_counter + 1,
                                  transcript |-> "", response |-> "",
                                  stt_start |-> FALSE, llm_start |-> FALSE,
                                  tts_start |-> FALSE,
                                  stt |-> FALSE, llm |-> FALSE, tts |-> FALSE,
                                  success |-> TRUE, error |-> ""]>>]

\* record_*_start note the stage's start time on the current turn,
\* record_*_end its latency (and the stage's result).
record_stt_start(m) ==
    IF m.current_turn = <<>> THEN m ELSE [m EXCEPT !.current_turn[1].stt_start = TRUE]

record_llm_start(m) ==
    IF m.current_turn = <<>> THEN m ELSE [m EXCEPT !.current_turn[1].llm_start = TRUE]

record_tts_start(m) ==
    IF m.current_turn = <<>> THEN m ELSE [m EXCEPT !.current_turn[1].tts_start = TRUE]

record_stt_end(m, transcript) ==
    IF m.current_turn = <<>> THEN m
    ELSE [m EXCEPT !.current_turn[1].stt = TRUE,
                   !.current_turn[1].transcript = transcript]

\* (Faulty variant: the reply stage's end is not recorded.)
record_llm_endMutSkipped(m, response) == m
record_llm_end(m, response) ==
    IF m.current_turn = <<>> THEN m
    ELSE [m EXCEPT !.current_turn[1].llm = TRUE,
                   !.current_turn[1].response = response]

record_tts_end(m) ==
    IF m.current_turn = <<>> THEN m
    ELSE [m EXCEPT !.current_turn[1].tts = TRUE]

\* (Faulty variant: the ended turn stays the current turn.)
end_turnMutKeepsCurrent(m, success, error) ==
    IF m.current_turn = <<>> THEN m
    ELSE [m EXCEPT !.turns = Append(@, [m.current_turn[1] EXCEPT !.success = success,
                                                                  !.error = error]),
                   !.total_turns = @ + 1,
                   !.successful_turns = IF success THEN @ + 1 ELSE @,
                   !.failed_turns = IF success THEN @ ELSE @ + 1]
end_turn(m, success, error) ==
    IF m.current_turn = <<>> THEN m
    ELSE [m EXCEPT !.turns = Append(@, [m.current_turn[1] EXCEPT !.success = success,
                                                                  !.error = error]),
                   !.total_turns = @ + 1,
                   !.successful_turns = IF success THEN @ + 1 ELSE @,
                   !.failed_turns = IF success THEN @ ELSE @ + 1,
                   !.current_turn = <<>>]

end_session(m) == [m EXCEPT !.ended = TRUE]

\* _print_session_summary divides by session.total_turns.
SummaryRaises(m) == m.total_turns = 0

\* ------------------------------------------------------------ orchestrator
\* _process_turn's locals: transcript, confidence (in hundredths), response.
NoLocal == [transcript |-> "", confidence |-> 0, response |-> ""]

\* TurnDetectionConfig.confidence_threshold, in hundredths; no code reads it.
confidence_threshold == 70

\* What transcribe_audio returns: a transcript with its confidence, or no
\* success (an empty transcription, a request that failed).  The loop reads
\* final_transcript with "" as the default.
Confidences == {50, 90}
SttResults ==
    {[success |-> TRUE, final_transcript |-> "text", final_confidence |-> c, error |-> ""]
         : c \in Confidences}
    \cup {[success |-> FALSE, final_transcript |-> "", final_confidence |-> 0, error |-> e]
              : e \in {"Empty transcription result", "Transcription error"}}

\* "if not stt_result.get('success') or not stt_result.get('final_transcript')"
\* (Faulty variant: the test inverted.)
NoUsableTranscriptMutInverted(stt_result) ==
    ~(~stt_result.success \/ stt_result.final_transcript = "")
NoUsableTranscript(stt_result) ==
    ~stt_result.success \/ stt_result.final_transcript = ""

\* generate_response's reply: the model's, or the local fallback after an
\* exception inside the service.
ModelReply == "reply"
FallbackReply == "fallback"

\* "self.conversation_history[-10:]"
HistoryWindow == 10

\* The history entries that go into a request.
\* (Faulty variant: the whole history is sent.)
RecentHistoryMutAll(history) == history
RecentHistory(history) ==
    IF Len(history) <= HistoryWindow THEN history
    ELSE SubSeq(history, Len(history) - HistoryWindow + 1, Len(history))

\* A call of generate_response ends in one of three ways: the model replied,
\* the request raised, or no API key is configured and no request is made.
LlmOutcomes == {"ok", "error", "no_key"}

\* generate_response: the history after the call, the reply returned, and the
\* history entries sent with the request (between the system prompt and the
\* user's input).
generate_response(history, user_input, outcome) ==
    [history |->
         IF outcome = "ok"
         THEN history \o <<[role |-> "user", content |-> user_input],
                           [role |-> "assistant", content |-> ModelReply]>>
         ELSE history,
     reply |-> IF outcome = "ok" THEN ModelReply ELSE FallbackReply,
     sent |-> IF outcome = "no_key" THEN <<>> ELSE RecentHistory(history)]

\* clear_history()
clear_history(history) == <<>>

\* "self.metrics.end_turn(success=tts_success)"
\* (Faulty variant: the turn always counts as a success.)
TurnSuccessMutAlways(tts_success) == TRUE
TurnSuccess(tts_success) == tts_success

\* "print(f'Assistant: {response}')" after speak_text returned, whatever it
\* returned.
\* (Faulty variant: printed only after a successful synthesis.)
DisplayedMutOnSuccess(tts_success, response) == IF tts_success THEN response ELSE ""
Displayed(tts_success, response) == response

\* "self.current_turn_start = None" after the awaited _process_turn.
\* (Faulty variant: the turn start is kept.)
TurnStartAfterTurnMutKept == current_turn_start
TurnStartAfterTurn == None

\* str(e) of an exception caught by _process_turn's "except Exception".
ExceptionText == "exception"

NoObs ==
    [in_flight |-> 0,          \* pipeline invocations started and not yet returned
     n_turn_ended |-> 0,       \* loop frames on which the detector ended a turn
     n_transcribe |-> 0,       \* transcribe_audio calls made by the loop
     stt_audio |-> <<>>,       \* frames handed to the last transcribe_audio call
     handed_before |-> {},     \* frames handed to the calls before it
     \* of the latest invocation that went past the early return:
     llm_failed |-> FALSE,     \* generate_response fell back after an exception
     llm_sent |-> <<>>,        \* the history entries its request carried
     tts_calls |-> 0,          \* speak_text calls made
     tts_text |-> "",          \* the text given to speak_text
     tts_result |-> "none",    \* what speak_text returned: "ok", "failed"
     printed |-> "",           \* the reply printed to the text output
     raised |-> FALSE,         \* ended by the except clause
     skipped_await |-> FALSE,  \* the loop's last iteration ended without an await
     onset_at |-> 0,           \* place in the buffer of the open turn's first speech frame
     last_event |-> "none"]    \* the detector's last SpeechStarted or TurnEnded

\* The device before anything was captured.
NoDevice == [produced |-> 0, buffer |-> <<>>]

AgentConstructed ==
    /\ is_running = FALSE
    /\ current_turn_start = None
    /\ loop_pc = "new"
    /\ turn_pc = "idle"
    /\ turn_local = NoLocal
    /\ recorder = NewRecorder
    /\ captured = 0
    /\ temp_audio = <<>>
    /\ metrics = NewMetrics
    /\ conversation_history = <<>>
    /\ obs = NoObs
    /\ device = NoDevice

Range(seq) == {seq[i] : i \in DOMAIN seq}

\* "if vad_result.get('is_speaking') and not self.current_turn_start"
\* (Faulty variant: every speaking frame starts a turn.)
TurnStartCondMutEveryFrame(res, cts) == res.is_speaking
TurnStartCond(res, cts) == res.is_speaking /\ ~Truthy(cts)

\* "if vad_result.get('turn_ended', False) and self.current_turn_start"
TurnEndCond(res, cts) == res.turn_ended /\ Truthy(cts)

\* _process_turn goes past its early return.
\* (Faulty variant: the test inverted.)
ProcessTurnProceedsMutInverted(cts) == ~Truthy(cts)
ProcessTurnProceeds(cts) == Truthy(cts)

\* "await self._process_turn()": the loop is suspended until the invocation
\* returns.
\* (Faulty variant: the invocation is started and not awaited.)
AfterDispatchMutNoAwait == "sleep"
AfterDispatch == "await_turn"

\* stop(): is_running = False, stop_recording(), cleanup(), end_session().
\* The loop ends "stopped", or "raised" when the session summary raises.
Stop ==
    /\ is_running' = FALSE
    /\ recorder' = stop_recording(recorder)
    /\ metrics' = end_session(metrics)

StopOutcome == IF SummaryRaises(metrics) THEN "raised" ELSE "stopped"

\* start(): the connection tests, is_running = True, then the loop's prologue
\* start_recording().  The language-model test never raises (the service
\* falls back) and leaves a user/assistant pair in the history when it
\* succeeds; a failed transcription test raises out of start().
Start ==
    /\ loop_pc = "new"
    /\ \E outcome \in LlmOutcomes, stt_ok \in BOOLEAN :
        /\ conversation_history' =
               generate_response(conversation_history, "Hello", outcome).history
        /\ IF stt_ok
           THEN /\ is_running' = TRUE
                /\ recorder' = start_recording(recorder)
                /\ loop_pc' = "iter"
           ELSE /\ loop_pc' = "failed"
                /\ UNCHANGED <<is_running, recorder>>
    /\ UNCHANGED <<now, device, detector_vars, current_turn_start, turn_pc, turn_local, captured,
                   temp_audio, metrics, obs>>

\* "while self.is_running" found false: the finally clause runs stop().
LoopExit ==
    /\ loop_pc = "iter"
    /\ ~is_running
    /\ Stop
    /\ loop_pc' = StopOutcome
    /\ UNCHANGED <<now, device, detector_vars, current_turn_start, turn_pc, turn_local, captured,
                   temp_audio, conversation_history, obs>>

\* record_chunk() returned None (the read raised, or the recorder is not
\* recording): "continue", straight back to the loop test with no await.
\* (Faulty variant: the missing chunk is taken for an error that ends the loop.)
FrameNoneMutStops ==
    /\ loop_pc = "iter"
    /\ is_running
    /\ is_running' = FALSE
    /\ obs' = [obs EXCEPT !.skipped_await = TRUE]
    /\ UNCHANGED <<now, device, detector_vars, current_turn_start, loop_pc, turn_pc,
                   turn_local, recorder, captured, temp_audio, metrics,
                   conversation_history>>
FrameNone ==
    /\ loop_pc = "iter"
    /\ is_running
    /\ obs' = [obs EXCEPT !.skipped_await = TRUE]
    /\ UNCHANGED <<now, device, detector_vars, is_running, current_turn_start, loop_pc, turn_pc,
                   turn_local, recorder, captured, temp_audio, metrics,
                   conversation_history>>

\* One loop iteration with a frame, up to its first suspension: record_chunk,
\* detect_voice_activity, the turn start, and on a turn end _process_turn up
\* to the transcription request.
FrameOf(frame) ==
    /\ loop_pc = "iter"
    /\ is_running
    /\ CanRead(recorder)
    /\ \E audio_chunk \in LoopChunks, dt \in DtSet :
        /\ now + dt <= MaxTime
        /\ LET out == detect_voice_activity(vad, audio_chunk, now + dt)
               res == out.result
               rec == record_chunk(recorder, frame)
               starts == TurnStartCond(res, current_turn_start)
               cts == IF starts THEN now + dt ELSE current_turn_start
               m1 == IF starts THEN start_turn(metrics) ELSE metrics
               ends == TurnEndCond(res, cts) /\ ProcessTurnProceeds(cts)
               event == IF res.turn_ended THEN "TurnEnded"
                        ELSE IF ~vad.is_speaking /\ out.vad.is_speaking
                             THEN "SpeechStarted"
                             ELSE obs.last_event
               file == save_audio(rec)
           IN  /\ now' = now + dt
               /\ vad' = out.vad
               /\ vad_result' = res
               /\ recorder' = rec
               /\ captured' = captured + 1
               /\ current_turn_start' = cts
               /\ metrics' = IF ends THEN record_stt_start(m1) ELSE m1
               /\ IF ends
                  THEN /\ temp_audio' = file
                       /\ turn_pc' = "stt"
                       /\ loop_pc' = AfterDispatch
                       /\ obs' = [obs EXCEPT
                              !.in_flight = @ + 1,
                              !.n_turn_ended = @ + 1,
                              !.n_transcribe = @ + 1,
                              !.stt_audio = file,
                              !.handed_before = @ \cup Range(obs.stt_audio),
                              !.llm_failed = FALSE,
                              !.tts_calls = 0,
                              !.tts_text = "",
                              !.tts_result = "none",
                              !.printed = "",
                              !.raised = FALSE,
                              !.skipped_await = FALSE,
                              !.last_event = event]
                  ELSE /\ loop_pc' = "sleep"
                       /\ obs' = [obs EXCEPT
                              !.n_turn_ended = IF res.turn_ended THEN @ + 1 ELSE @,
                              !.skipped_await = FALSE,
                              !.last_event = event,
                              !.onset_at =
                                  IF starts
                                  THEN Len(rec.audio_buffer)
                                           - out.vad.consecutive_speech_frames + 1
                                  ELSE @]
                       /\ UNCHANGED <<temp_audio, turn_pc>>
    /\ UNCHANGED <<hist, audio_data, is_running, turn_local, conversation_history>>

\* The microphone delivers the next chunk to every read.
Frame ==
    /\ FrameOf(captured + 1)
    /\ UNCHANGED device

\* "await asyncio.sleep(0.01)" returns.
SleepDone ==
    /\ loop_pc = "sleep"
    /\ loop_pc' = "iter"
    /\ UNCHANGED <<now, device, detector_vars, is_running, current_turn_start, turn_pc, turn_local,
                   recorder, captured, temp_audio, metrics, conversation_history, obs>>

\* _process_turn returns to the loop awaiting it: "self.current_turn_start =
\* None", then the loop's sleep.
ReturnToLoop(o) ==
    /\ turn_pc' = "idle"
    /\ turn_local' = NoLocal
    /\ obs' = [o EXCEPT !.in_flight = @ - 1, !.onset_at = 0, !.llm_sent = <<>>]
    /\ IF loop_pc = "await_turn"
       THEN /\ current_turn_start' = TurnStartAfterTurn
            /\ loop_pc' = "sleep"
       ELSE UNCHANGED <<current_turn_start, loop_pc>>

\* The transcription request resolves.  No usable transcript: the turn ends
\* failed.  A transcript: the reply request is made.
SttDone ==
    /\ turn_pc = "stt"
    /\ \E stt_result \in SttResults :
        LET m1 == record_stt_end(metrics, stt_result.final_transcript)
        IN  IF NoUsableTranscript(stt_result)
            THEN /\ metrics' = end_turn(m1, FALSE, "No speech detected")
                 /\ temp_audio' = <<>>
                 /\ ReturnToLoop(obs)
            ELSE /\ metrics' = record_llm_start(m1)
                 /\ turn_pc' = "llm"
                 /\ turn_local' = [turn_local EXCEPT
                        !.transcript = stt_result.final_transcript,
                        !.confidence = stt_result.final_confidence]
                 /\ UNCHANGED <<temp_audio, current_turn_start, loop_pc, obs>>
    /\ UNCHANGED <<now, device, detector_vars, is_running, recorder, captured, conversation_history>>

\* generate_response resolves: the model's reply, recorded in the history, or
\* the fallback reply after an exception.  The synthesis request is made.
LlmDone ==
    /\ turn_pc = "llm"
    /\ \E outcome \in LlmOutcomes :
        LET out == generate_response(conversation_history, turn_local.transcript,
                                     outcome)
            response == out.reply
            ok == outcome = "ok"
        IN  /\ conversation_history' = out.history
            /\ metrics' = record_tts_start(record_llm_end(metrics, response))
            /\ turn_local' = [turn_local EXCEPT !.response = response]
            /\ obs' = [obs EXCEPT !.llm_failed = ~ok,
                                  !.llm_sent = out.sent,
                                  !.tts_calls = @ + 1,
                                  !.tts_text = response]
    /\ turn_pc' = "tts"
    /\ UNCHANGED <<now, device, detector_vars, is_running, current_turn_start, loop_pc, recorder,
                   captured, temp_audio>>

\* speak_text resolves with its success flag; the reply is printed and the
\* turn ends with the flag.
TtsDone ==
    /\ turn_pc = "tts"
    /\ \E tts_success \in BOOLEAN :
        /\ metrics' = end_turn(record_tts_end(metrics), TurnSuccess(tts_success), "")
        /\ ReturnToLoop([obs EXCEPT
               !.tts_result = IF tts_success THEN "ok" ELSE "failed",
               !.printed = Displayed(tts_success, turn_local.response)])
    /\ temp_audio' = <<>>
    /\ UNCHANGED <<now, device, detector_vars, is_running, recorder, captured, conversation_history>>

\* A statement of _process_turn's try block raises when the invocation is
\* resumed: "except Exception" ends the turn failed with the exception's text;
\* the temporary file is left behind.
TurnRaises ==
    /\ turn_pc \in {"stt", "llm", "tts"}
    /\ metrics' = end_turn(metrics, FALSE, ExceptionText)
    /\ ReturnToLoop([obs EXCEPT !.raised = TRUE])
    /\ UNCHANGED <<now, device, detector_vars, is_running, recorder, captured, temp_audio,
                   conversation_history>>

\* Another task calls stop() while the loop is suspended.
ExternalStop ==
    /\ loop_pc \in {"sleep", "await_turn"}
    /\ is_running
    /\ Stop
    /\ UNCHANGED <<now, device, detector_vars, current_turn_start, loop_pc, turn_pc, turn_local,
                   captured, temp_audio, conversation_history, obs>>

\* The task is cancelled at its suspension point (Ctrl+C): the exception
\* passes _process_turn's "except Exception" and the loop's finally clause
\* runs stop().
Cancel ==
    /\ loop_pc \in {"sleep", "await_turn"}
    /\ Stop
    /\ loop_pc' = StopOutcome
    /\ turn_pc' = "idle"
    /\ turn_local' = NoLocal
    /\ obs' = [obs EXCEPT !.in_flight = IF turn_pc = "idle" THEN @ ELSE @ - 1,
                          !.llm_sent = <<>>]
    /\ UNCHANGED <<now, device, detector_vars, current_turn_start, captured, temp_audio,
                   conversation_history>>

Init ==
    /\ now = 0
    /\ vad = NewDetector
    /\ vad_result = NoResult
    /\ hist = NoHist
    /\ audio_data = <<>>
    /\ AgentConstructed

Next ==
    \/ Start
    \/ LoopExit
    \/ FrameNone
    \/ Frame
    \/ SleepDone
    \/ SttDone
    \/ LlmDone
    \/ TtsDone
    \/ TurnRaises
    \/ ExternalStop
    \/ Cancel

Spec == Init /\ [][Next]_vars

\* ------------------------------------------------- the detector on its own
InitVAD ==
    /\ now = 0
    /\ vad = NewDetector
    /\ vad_result = NoResult
    /\ hist = NoHist
    /\ audio_data = <<>>
    /\ AgentConstructed

\* A caller feeds one chunk, dt ticks after the previous read of the clock.
Detect ==
    \E audio_chunk \in Chunks, dt \in DtSet :
        /\ now + dt <= MaxTime
        /\ LET out == detect_voice_activity(vad, audio_chunk, now + dt)
           IN  /\ now' = now + dt
               /\ vad' = out.vad
               /\ vad_result' = out.result
               /\ hist' = HistAfterFrame(hist, vad, out.vad, out.result,
                                         Volume(audio_chunk), now + dt)
               /\ UNCHANGED <<audio_data, agent_vars>>

Reset ==
    /\ vad' = reset(vad)
    /\ hist' = HistAfterReset(hist, vad)
    /\ UNCHANGED <<now, vad_result, audio_data>>
    /\ UNCHANGED agent_vars

NextVAD == Detect \/ Reset

SpecVAD == InitVAD /\ [][NextVAD]_vars

\* --------------------------------------- the detector fed at a fixed cadence
\* A caller feeds a fresh detector one chunk every 100 ms.
DetectAtCadence ==
    \E audio_chunk \in Chunks :
        /\ now + CadenceTicks <= MaxCadenceFrames * CadenceTicks
        /\ LET out == detect_voice_activity(vad, audio_chunk, now + CadenceTicks)
           IN  /\ now' = now + CadenceTicks
               /\ vad' = out.vad
               /\ vad_result' = out.result
               /\ hist' = HistAfterFrame(hist, vad, out.vad, out.result,
                                         Volume(audio_chunk), now + CadenceTicks)
               /\ UNCHANGED <<audio_data, agent_vars>>

NextCadence == DetectAtCadence

SpecCadence == InitVAD /\ [][NextCadence]_vars

\* ------------------------------------------------------- the capture path
\* The loop with the device behind the stream.  stream.read blocks until the
\* device has a chunk, so a reading loop gets every chunk as it is produced;
\* while the loop is suspended in an awaited pipeline invocation nothing
\* reads, and the device holds the chunks it produces up to its capacity.
\* The read is made with exception_on_overflow=False: a chunk produced to a
\* full device is discarded without a trace.
SourceProduces ==
    /\ loop_pc = "await_turn"
    /\ recorder.stream = "open"
    /\ device.produced < MaxProduced
    /\ device' = [produced |-> device.produced + 1,
                  buffer |-> IF Len(device.buffer) < DeviceCapacity
                             THEN Append(device.buffer, device.produced + 1)
                             ELSE device.buffer]
    /\ UNCHANGED <<now, detector_vars, is_running, current_turn_start, loop_pc, turn_pc,
                   turn_local, recorder, captured, temp_audio, metrics,
                   conversation_history, obs>>

\* One loop iteration: the read returns the oldest chunk the device holds, or
\* waits for the next one.
FrameFromDevice ==
    IF device.buffer # <<>>
    THEN /\ FrameOf(Head(device.buffer))
         /\ device' = [device EXCEPT !.buffer = Tail(@)]
    ELSE /\ device.produced < MaxProduced
         /\ FrameOf(device.produced + 1)
         /\ device' = [device EXCEPT !.produced = @ + 1]

NextCapture ==
    \/ Start
    \/ FrameFromDevice
    \/ SourceProduces
    \/ SleepDone
    \/ SttDone
    \/ LlmDone
    \/ TtsDone

SpecCapture == Init /\ [][NextCapture]_vars

\* ------------------------------------------- the volume estimator on its own
\* The samples the estimator is tried on: every sample of small magnitude and
\* the two ends of the signed 16-bit range.
VolumeSamples == (-MaxSample..MaxSample) \cup {-32768, 32767}
VolumeChunks == [1..chunk_size -> VolumeSamples]

InitVolume ==
    /\ now = 0
    /\ vad = NewDetector
    /\ vad_result = NoResult
    /\ hist = NoHist
    /\ audio_data \in VolumeChunks
    /\ AgentConstructed

\* The first three statements of detect_voice_activity, on the chunk given.
EstimateVolume ==
    /\ hist.last_op = "init"
    /\ vad_result' = [NoResult EXCEPT !.volume = Volume(audio_data)]
    /\ hist' = [hist EXCEPT !.last_op = "volume"]
    /\ UNCHANGED <<now, vad, audio_data, agent_vars>>

NextVolume == EstimateVolume

SpecVolume == InitVolume /\ [][NextVolume]_vars

\* ----------------------------------------- the metrics collector on its own
\* A caller makes the collector's calls in any order, one clock tick apart
\* (every call reads time.time()).
MetricsCall(m) ==
    /\ now < MaxMetricsCalls
    /\ now' = now + 1
    /\ metrics' = m
    /\ UNCHANGED <<detector_vars, is_running, current_turn_start, loop_pc, turn_pc,
                   turn_local, recorder, captured, temp_audio, conversation_history,
                   obs, device>>

CallStartTurn == MetricsCall(start_turn(metrics))

CallRecordStart ==
    \/ MetricsCall(record_stt_start(metrics))
    \/ MetricsCall(record_llm_start(metrics))
    \/ MetricsCall(record_tts_start(metrics))

CallRecordEnd ==
    \/ MetricsCall(record_stt_end(metrics, "text"))
    \/ MetricsCall(record_llm_end(metrics, ModelReply))
    \/ MetricsCall(record_tts_end(metrics))

CallEndTurn ==
    \E success \in BOOLEAN :
        MetricsCall(end_turn(metrics, success, IF success THEN "" ELSE ExceptionText))

CallEndSession == MetricsCall(end_session(metrics))

NextMetrics ==
    \/ CallStartTurn
    \/ CallRecordStart
    \/ CallRecordEnd
    \/ CallEndTurn
    \/ CallEndSession

SpecMetrics == Init /\ [][NextMetrics]_vars

\* ------------------------------------- the language-model service on its own
\* What callers say to the service: the connection test's greeting and a
\* transcript.
UserInputs == {"Hello", "text"}

\* A caller asks for a reply.
GenerateResponse ==
    \E user_input \in UserInputs, outcome \in LlmOutcomes :
        LET out == generate_response(conversation_history, user_input, outcome)
        IN  /\ Len(out.history) <= MaxHistory
            /\ conversation_history' = out.history
            /\ obs' = [obs EXCEPT !.llm_failed = outcome # "ok",
                                  !.llm_sent = out.sent]
            /\ UNCHANGED <<now, device, detector_vars, is_running, current_turn_start,
                           loop_pc, turn_pc, turn_local, recorder, captured,
                           temp_audio, metrics>>

ClearHistory ==
    /\ conversation_history' = clear_history(conversation_history)
    /\ UNCHANGED <<now, device, detector_vars, is_running, current_turn_start,
                   loop_pc, turn_pc, turn_local, recorder, captured, temp_audio,
                   metrics, obs>>

NextLLM == GenerateResponse \/ ClearHistory

SpecLLM == Init /\ [][NextLLM]_vars

\* ------------------------------------------------- the recorder on its own
\* A caller makes the recorder's lifecycle calls in any order.
CallStartRecording ==
    /\ recorder' = start_recording(recorder)
    /\ UNCHANGED <<now, device, detector_vars, is_running, current_turn_start, loop_pc,
                   turn_pc, turn_local, captured, temp_audio, metrics,
                   conversation_history, obs>>

\* record_chunk: None when not recording or when the read raises, else the
\* chunk read, appended to the buffer.
CallRecordChunk ==
    /\ captured < MaxRecorded
    /\ \E read_ok \in BOOLEAN :
          IF CanRead(recorder) /\ read_ok
          THEN /\ recorder' = record_chunk(recorder, captured + 1)
               /\ captured' = captured + 1
          ELSE UNCHANGED <<recorder, captured>>
    /\ UNCHANGED <<now, device, detector_vars, is_running, current_turn_start, loop_pc,
                   turn_pc, turn_local, temp_audio, metrics, conversation_history, obs>>

CallStopRecording ==
    /\ recorder' = stop_recording(recorder)
    /\ UNCHANGED <<now, device, detector_vars, is_running, current_turn_start, loop_pc,
                   turn_pc, turn_local, captured, temp_audio, metrics,
                   conversation_history, obs>>

NextRecorder == CallStartRecording \/ CallRecordChunk \/ CallStopRecording

SpecRecorder == Init /\ [][NextRecorder]_vars

\* ================================================================== claims
\* C1: at most one pipeline invocation is in flight at any time, and wherever
\* the loop can go on to read or process a frame no invocation is in flight.
C1_AtMostOneInFlight ==
    /\ obs.in_flight <= 1
    /\ (loop_pc \in {"iter", "sleep"} => obs.in_flight = 0)

C1_Witness ==
    /\ obs.in_flight = 1
    /\ loop_pc = "await_turn"
    /\ turn_pc = "tts"
    /\ metrics.total_turns = 1

\* C2: the loop has made exactly one transcription call for every frame on
\* which the detector ended a turn, and none without such a frame.
C2_OneTranscriptionPerTurnEnd ==
    obs.n_transcribe = obs.n_turn_ended

C2_Witness ==
    /\ obs.n_turn_ended = 2
    /\ obs.n_transcribe = 2
    /\ turn_pc = "stt"

\* C3: the audio handed to transcription for a turn contains no frame that was
\* already handed to transcription for an earlier turn.
C3_NoFrameHandedTwice ==
    Range(obs.stt_audio) \cap obs.handed_before = {}
\* The hysteresis band, bounds included, on the carried volume.
InBand(volume) ==
    /\ volume >= silence_threshold * silence_threshold * chunk_size
    /\ volume <= speech_threshold * speech_threshold * chunk_size

\* C4: a turn ends only on the current silence run: TurnEnded is emitted only
\* when the current uninterrupted run of frames below silence_threshold has
\* reached silence_frame_threshold frames and more than silence_duration has
\* elapsed since the frame at which this run reached that count.
C4_TurnEndsOnlyOnCurrentSilenceRun ==
    hist.event = "TurnEnded" =>
        /\ hist.run_kind = "silence"
        /\ hist.run_len >= silence_frame_threshold
        /\ hist.run_confirm_at # None
        /\ now - hist.run_confirm_at > silence_duration

\* C5: from the initial or reset detector, while every frame fed has a volume
\* below silence_threshold, the detector is not speaking and has emitted no
\* SpeechStarted.
C5_SilenceNeverStartsSpeech ==
    hist.all_silent =>
        /\ ~vad.is_speaking
        /\ (hist.last_op = "detect" => ~vad_result.is_speaking)
        /\ hist.event # "SpeechStarted"

C5_Witness ==
    /\ hist.all_silent
    /\ hist.last_op = "detect"
    /\ hist.run_len > silence_frame_threshold
    /\ now > silence_frame_threshold + silence_duration

\* C6: in a run of frames above speech_threshold that starts in Idle,
\* SpeechStarted is emitted at the frame where the run reaches
\* speech_frame_threshold frames, and at no other frame.
C6_SpeechStartedExactlyAtThreshold ==
    hist.last_op = "detect" =>
        ((hist.event = "SpeechStarted") <=>
            /\ hist.run_kind = "speech"
            /\ ~hist.run_from_speaking
            /\ hist.run_len = speech_frame_threshold)

C6_Witness ==
    /\ hist.run_kind = "speech"
    /\ ~hist.run_from_speaking
    /\ hist.run_len > speech_frame_threshold
    /\ hist.event = "Nothing"
    /\ vad.is_speaking

\* C7: once speaking, a silence run of at least silence_frame_threshold frames
\* followed by more than silence_duration of elapsed time has yielded exactly
\* one TurnEnded; right after TurnEnded is_speaking is false and both
\* timestamps are cleared; no silence run emits a second TurnEnded.
C7_ExactlyOneTurnEnded ==
    /\ hist.event = "TurnEnded" =>
           /\ ~vad.is_speaking
           /\ vad.speech_start = None
           /\ vad.silence_start = None
    /\ (/\ hist.run_kind = "silence"
        /\ hist.run_from_speaking
        /\ hist.run_len >= silence_frame_threshold
        /\ now - hist.run_confirm_at > silence_duration)
           => hist.run_turn_ends = 1
    /\ hist.run_turn_ends <= 1

C7_Witness ==
    /\ hist.run_kind = "silence"
    /\ hist.run_from_speaking
    /\ hist.run_turn_ends = 1
    /\ hist.event = "Nothing"
    /\ hist.last_op = "detect"

\* C8: a frame whose volume lies in the hysteresis band, bounds included,
\* leaves both counters at 0, does not change is_speaking and emits neither
\* SpeechStarted nor TurnEnded.
C8_BandFrameResetsCounters ==
    (hist.last_op = "detect" /\ InBand(vad_result.volume)) =>
        /\ vad.consecutive_speech_frames = 0
        /\ vad.consecutive_silence_frames = 0
        /\ vad.is_speaking = hist.was_speaking
        /\ vad_result.is_speaking = hist.was_speaking
        /\ ~vad_result.turn_ended
        /\ hist.event = "Nothing"

C8_Witness ==
    /\ hist.last_op = "detect"
    /\ vad_result.volume = speech_threshold * speech_threshold * chunk_size
    /\ hist.was_speaking
    /\ vad.silence_start # None

\* C9: right after reset() the detector's fields are those of a freshly
\* constructed detector, whatever the state before.
C9_ResetReturnsToIdle ==
    hist.last_op = "reset" => vad = NewDetector

C9_Witness ==
    /\ hist.last_op = "reset"
    /\ hist.was_speaking
    /\ vad = NewDetector

\* C10: a second reset() right after a reset() leaves the detector's state as
\* the first one left it.
C10_ResetIdempotent ==
    [][(hist.last_op = "reset" /\ hist'.last_op = "reset") => vad' = vad]_vars

C10_Witness ==
    hist.reset_streak = 2

\* C11 (as stated): fed the worked example, the detector emits SpeechStarted at
\* the 5th frame and at no other frame, and the run of ten quiet frames that
\* ends the example has emitted TurnEnded.
C11_TenQuietFramesEndTheTurn ==
    /\ (hist.scenario \in 1..Len(ScenarioVolumes)
            => (hist.event = "SpeechStarted" <=> hist.scenario = 5))
    /\ (hist.scenario = Len(ScenarioVolumes) => hist.run_turn_ends = 1)

\* C11 (amended): fed the worked example, the detector emits SpeechStarted at
\* the 5th frame and at no other frame and emits no TurnEnded within the 15
\* frames: the quiet run is confirmed at its 5th frame (the 10th frame) and,
\* the quiet going on at 100 ms a frame, TurnEnded is emitted exactly once, at
\* the first frame more than silence_duration after the confirmation (the
\* 21st frame).
C11_ScenarioEvents ==
    hist.scenario \in 1..MaxCadenceFrames =>
        /\ (hist.event = "SpeechStarted" <=> hist.scenario = 5)
        /\ (hist.event = "TurnEnded"
                <=> hist.scenario = 5 + silence_frame_threshold + silence_duration + 1)
        /\ (hist.scenario <= Len(ScenarioVolumes) => hist.run_turn_ends = 0)
        /\ (hist.scenario = 5 + silence_frame_threshold => vad.silence_start = now)

C11_Witness ==
    /\ hist.scenario = 5 + silence_frame_threshold + silence_duration + 1
    /\ hist.event = "TurnEnded"
    /\ hist.run_len = silence_frame_threshold + silence_duration + 1

\* C12: a turn's duration is bounded: whatever the volumes after SpeechStarted,
\* the detector has left the speaking state (TurnEnded) by the time the
\* configured maximum delay has passed since the speech started.
C12_TurnDurationBounded ==
    vad.is_speaking => now - vad.speech_start <= max_endpointing_delay

\* The sum of the squares of the first i samples, as the integers have it.
RECURSIVE SumSquares(_, _)
SumSquares(samples, i) ==
    IF i = 0 THEN 0 ELSE samples[i] * samples[i] + SumSquares(samples, i - 1)

\* C13: for every frame of signed 16-bit samples the volume is the root of the
\* mathematical mean of the squared samples (no wrap-around at 16 bits), and
\* an all-zero frame yields 0.
C13_VolumeIsRootMeanSquare ==
    hist.last_op = "volume" =>
        /\ vad_result.volume = SumSquares(audio_data, chunk_size)
        /\ ((\A i \in 1..chunk_size : audio_data[i] = 0) => vad_result.volume = 0)

\* The turn record appended to the session last, and the steps that append one.
LastTurn == metrics.turns[Len(metrics.turns)]
Finalizes == Len(metrics'.turns) = Len(metrics.turns) + 1

\* C14 (amended): a turn whose transcription returned no usable transcript (empty or
\* unsuccessful) is recorded as failed with the reason "No speech detected"
\* straight from the transcription stage, with neither reply generation nor
\* synthesis invoked for it, and the loop goes on: no turn is active and the
\* loop is at its sleep, as ready to run as before.  No reply request is ever
\* made without a transcript.
C14_NoTranscriptFailsTurn ==
    [][/\ (turn_pc' \in {"llm", "tts"} => turn_local'.transcript # "")
       /\ ((Finalizes /\ LastTurn'.stt /\ LastTurn'.transcript = "") =>
              /\ turn_pc = "stt" /\ turn_pc' = "idle"
              /\ ~LastTurn'.success
              /\ LastTurn'.error = "No speech detected"
              /\ ~LastTurn'.llm /\ ~LastTurn'.tts /\ LastTurn'.response = ""
              /\ obs'.tts_calls = 0
              /\ metrics'.current_turn = <<>>
              /\ current_turn_start' = None
              /\ loop_pc' = "sleep"
              /\ is_running' = is_running)]_vars

\* C14 (as stated): the reason recorded for such a turn is, letter for letter,
\* "no speech detected".
C14_ReasonAsStated ==
    [][(Finalizes /\ LastTurn'.stt /\ LastTurn'.transcript = "") =>
              /\ ~LastTurn'.success
              /\ LastTurn'.error = "no speech detected"
              /\ ~LastTurn'.llm /\ ~LastTurn'.tts]_vars

C14_Witness ==
    /\ Len(metrics.turns) = 1
    /\ metrics.turns[1].stt /\ metrics.turns[1].transcript = ""
    /\ metrics.turns[1].error = "No speech detected"
    /\ metrics.turn_counter = 2
    /\ metrics.current_turn # <<>>
    /\ turn_pc = "stt"

\* C15: a turn whose transcript is non-empty and whose confidence is below the
\* configured floor is recorded as failed, with neither reply generation nor
\* synthesis invoked for it.
C15_LowConfidenceFailsTurn ==
    [][(/\ Finalizes
        /\ turn_local.transcript # ""
        /\ turn_local.confidence < confidence_threshold) =>
              /\ ~LastTurn'.success
              /\ ~LastTurn'.llm /\ ~LastTurn'.tts
              /\ obs'.tts_calls = 0]_vars

\* C16: when reply generation fails, the fallback reply is substituted,
\* synthesis is invoked with the fallback text, and the turn goes on to its end
\* with the synthesis outcome as its success.
C16_FallbackReplyIsSpoken ==
    [][/\ ((turn_pc = "llm" /\ obs'.llm_failed) =>
              /\ turn_pc' = "tts"
              /\ turn_local'.response = FallbackReply
              /\ obs'.tts_text = FallbackReply
              /\ obs'.tts_calls = 1)
       /\ ((Finalizes /\ obs'.llm_failed /\ ~obs'.raised) =>
              /\ turn_pc = "tts"
              /\ LastTurn'.response = FallbackReply
              /\ obs'.tts_text = FallbackReply
              /\ obs'.tts_result \in {"ok", "failed"}
              /\ LastTurn'.success = (obs'.tts_result = "ok"))]_vars

C16_Witness ==
    /\ Len(metrics.turns) = 1
    /\ obs.llm_failed /\ ~obs.raised
    /\ metrics.turns[1].response = FallbackReply
    /\ obs.tts_result = "ok"
    /\ metrics.turns[1].success

\* C17: every turn finalized with success = false has a non-empty error
\* string, and a turn whose reply is the fallback carries a record of the
\* generation failure.
C17_FailureHasReason ==
    \A i \in DOMAIN metrics.turns :
        /\ (~metrics.turns[i].success => metrics.turns[i].error # "")
        /\ (metrics.turns[i].response = FallbackReply => metrics.turns[i].error # "")

\* C18: when synthesis fails the turn is marked failed and the reply is still
\* printed to the text output; speak_text is invoked at most once per turn.
C18_SynthesisFailureNotRetried ==
    [][/\ obs'.tts_calls <= 1
       /\ ((Finalizes /\ obs'.tts_result = "failed") =>
              /\ turn_pc = "tts"
              /\ ~LastTurn'.success
              /\ obs'.printed = turn_local.response
              /\ obs'.printed # ""
              /\ obs'.tts_calls = 1)]_vars

C18_Witness ==
    /\ Len(metrics.turns) = 1
    /\ obs.tts_result = "failed"
    /\ metrics.turns[1].tts /\ ~metrics.turns[1].success
    /\ obs.printed = ModelReply

\* C19: a turn that fails, at whatever stage and also through the except
\* clause, does not halt the loop: is_running is as it was, no turn is active,
\* no invocation is in flight and the loop is at its sleep, from where a later
\* turn is started and processed.
C19_FailedTurnDoesNotHaltLoop ==
    [][(Finalizes /\ ~LastTurn'.success) =>
              /\ is_running' = is_running
              /\ recorder' = recorder
              /\ current_turn_start' = None
              /\ metrics'.current_turn = <<>>
              /\ turn_pc' = "idle"
              /\ loop_pc' = "sleep"]_vars

C19_Witness ==
    /\ Len(metrics.turns) = 2
    /\ ~metrics.turns[1].success
    /\ metrics.turns[1].error = ExceptionText
    /\ metrics.turns[2].turn_id = 2
    /\ is_running
    /\ loop_pc = "sleep"

\* C20: every turn record created by start_turn is finalized exactly once,
\* also over a run that is stopped: once the loop has ended, as many records
\* are in the session as start_turn created and none is left current, and no
\* record is in the session twice.
C20_EveryTurnFinalizedOnce ==
    /\ (loop_pc \in {"stopped", "raised"} =>
            /\ metrics.current_turn = <<>>
            /\ Len(metrics.turns) = metrics.turn_counter)
    /\ \A i, j \in DOMAIN metrics.turns :
            metrics.turns[i].turn_id = metrics.turns[j].turn_id => i = j

\* C21: when the loop has returned, a turn that was in progress at the stop has
\* been ended as a failed turn with a reason: none is left current, every
\* started turn is counted in the session, and the turn the stop interrupted
\* is in the session as failed with a non-empty error.
C21_StoppedTurnIsFlushed ==
    loop_pc \in {"stopped", "raised"} =>
        /\ metrics.current_turn = <<>>
        /\ metrics.total_turns = metrics.turn_counter
        /\ (Truthy(current_turn_start) =>
                /\ metrics.turns # <<>>
                /\ ~LastTurn.success
                /\ LastTurn.error # "")

\* C22: once a stop has been requested (is_running cleared while the loop
\* runs) no further frame is read or fed to the detector, the loop test that
\* observes the request ends the loop at once, and whenever the loop returns
\* the recorder is no longer recording and its stream is closed.
C22_StopEndsLoopWithinOneTick ==
    [][/\ ((loop_pc \in {"iter", "sleep", "await_turn"} /\ ~is_running) =>
              /\ vad' = vad
              /\ vad_result' = vad_result
              /\ captured' = captured
              /\ recorder'.audio_buffer = recorder.audio_buffer)
       /\ ((loop_pc = "iter" /\ ~is_running) => loop_pc' \in {"stopped", "raised"})
       /\ (loop_pc' \in {"stopped", "raised"} =>
              /\ ~is_running'
              /\ ~recorder'.is_recording
              /\ recorder'.stream = "closed")]_vars

\* The loop test is about to observe a stop() made by another task while a
\* pipeline invocation was awaited.
C22_Witness ==
    /\ loop_pc = "iter"
    /\ ~is_running
    /\ recorder.stream = "closed"
    /\ captured > 0
    /\ metrics.total_turns > 0

\* C23: the loop gives other tasks a chance to run on every tick, also when
\* the read returned no data: every iteration begun while running ends at an
\* await (the sleep, or the awaited pipeline invocation), where a stop made by
\* another task can take place.
C23_EveryTickYields ==
    [][(loop_pc = "iter" /\ is_running) => loop_pc' \in {"sleep", "await_turn"}]_vars

\* C24: a capture error is fatal to the loop: an iteration whose read was
\* attempted (the recorder is recording on a stream) and delivered no frame
\* ends the loop, with the recorder torn down, instead of polling on.
C24_CaptureErrorIsFatal ==
    [][(/\ loop_pc = "iter" /\ is_running
        /\ CanRead(recorder)
        /\ captured' = captured) =>
              /\ loop_pc' \in {"stopped", "raised"}
              /\ ~recorder'.is_recording
              /\ recorder'.stream = "closed"]_vars

\* C25: no frame is lost between turns: the frames read so far (all fed to the
\* detector, in the order read) followed by the frames the device still holds
\* are the frames the microphone produced, each once and in order.
C25_NoFrameLost ==
    recorder.audio_buffer \o device.buffer = [i \in 1..device.produced |-> i]

\* C26: in every reachable detector state the run-length counters are
\* mutually exclusive and never negative.
C26_CountersMutuallyExclusive ==
    /\ vad.consecutive_speech_frames >= 0
    /\ vad.consecutive_silence_frames >= 0
    /\ (vad.consecutive_speech_frames > 0 => vad.consecutive_silence_frames = 0)
    /\ (vad.consecutive_silence_frames > 0 => vad.consecutive_speech_frames = 0)

\* A quiet frame has followed a run of loud frames that started a turn.
C26_Witness ==
    /\ hist.last_op = "detect"
    /\ vad.is_speaking
    /\ hist.run_kind = "silence"
    /\ vad.consecutive_silence_frames = 2
    /\ vad.consecutive_speech_frames = 0

\* C27: in every reachable detector state, is_speaking implies speech_start
\* is set.
C27_SpeakingHasSpeechStart ==
    vad.is_speaking => vad.speech_start # None

C27_Witness ==
    /\ vad.is_speaking
    /\ vad.speech_start # None
    /\ vad.speech_start < now
    /\ hist.run_kind = "between"

\* C28: silence_start is set only while is_speaking is true and a confirmed
\* silence run is in progress; once a loud frame or a frame inside the band
\* has broken the run, silence_start is unset.
C28_SilenceStartOnlyInSilenceRun ==
    vad.silence_start # None =>
        /\ vad.is_speaking
        /\ vad.consecutive_silence_frames >= silence_frame_threshold

\* C29: start_turn is called exactly at the frames where the detector's
\* is_speaking goes from false to true, once each, and after every loop
\* iteration (the loop at its sleep or back at its test) the orchestrator has
\* an active turn if and only if the detector's is_speaking is true.
C29_TurnStartsExactlyOnSpeechStarted ==
    [][/\ (metrics'.turn_counter # metrics.turn_counter =>
              /\ metrics'.turn_counter = metrics.turn_counter + 1
              /\ ~vad.is_speaking /\ vad'.is_speaking)
       /\ ((~vad.is_speaking /\ vad'.is_speaking) =>
              /\ metrics'.turn_counter = metrics.turn_counter + 1
              /\ metrics'.current_turn # <<>>
              /\ metrics'.current_turn[1].turn_id = metrics'.turn_counter)
       /\ (loop_pc' \in {"iter", "sleep"} =>
              (Truthy(current_turn_start') <=> vad'.is_speaking))]_vars

C29_Witness ==
    /\ metrics.turn_counter = 2
    /\ Len(metrics.turns) = 1
    /\ vad.is_speaking
    /\ current_turn_start = now
    /\ loop_pc = "sleep"

\* The current turn's record, when there is one.
CurrentTurn == metrics.current_turn[1]

\* C30: within a turn the stages run in the order transcribe, generate,
\* synthesize, each at most once: the invocation only moves from transcription
\* to generation to synthesis or back to idle; generation starts only with a
\* non-empty transcript recorded; synthesis starts only with the reply
\* recorded; and when a stage starts the start and end of every earlier stage
\* are recorded and nothing of a later stage is.
C30_StagesInOrder ==
    [][/\ (turn_pc' # turn_pc =>
              \/ turn_pc = "idle" /\ turn_pc' = "stt"
              \/ turn_pc = "stt" /\ turn_pc' = "llm"
              \/ turn_pc = "llm" /\ turn_pc' = "tts"
              \/ turn_pc' = "idle")
       /\ ((turn_pc = "idle" /\ turn_pc' = "stt") =>
              /\ obs'.n_transcribe = obs.n_transcribe + 1
              /\ CurrentTurn'.stt_start
              /\ ~CurrentTurn'.stt
              /\ ~CurrentTurn'.llm_start /\ ~CurrentTurn'.llm
              /\ ~CurrentTurn'.tts_start /\ ~CurrentTurn'.tts)
       /\ (turn_pc' = turn_pc => obs'.n_transcribe = obs.n_transcribe)
       /\ ((turn_pc = "stt" /\ turn_pc' = "llm") =>
              /\ CurrentTurn'.stt_start /\ CurrentTurn'.stt
              /\ CurrentTurn'.transcript # ""
              /\ turn_local'.transcript = CurrentTurn'.transcript
              /\ CurrentTurn'.llm_start
              /\ ~CurrentTurn'.llm
              /\ ~CurrentTurn'.tts_start /\ ~CurrentTurn'.tts
              /\ obs'.tts_calls = 0)
       /\ ((turn_pc = "llm" /\ turn_pc' = "tts") =>
              /\ CurrentTurn'.stt_start /\ CurrentTurn'.stt
              /\ CurrentTurn'.llm_start /\ CurrentTurn'.llm
              /\ CurrentTurn'.response = turn_local'.response
              /\ CurrentTurn'.response # ""
              /\ CurrentTurn'.tts_start
              /\ ~CurrentTurn'.tts
              /\ obs'.tts_calls = 1)]_vars

C30_Witness ==
    /\ Len(metrics.turns) = 1
    /\ LastTurn.stt_start /\ LastTurn.stt
    /\ LastTurn.llm_start /\ LastTurn.llm
    /\ LastTurn.tts_start /\ LastTurn.tts
    /\ LastTurn.success
    /\ turn_pc = "idle"

\* C31: the audio handed to transcription for a turn holds, in capture order
\* and without a gap, every frame from the first of the speech frames that
\* confirmed the turn's onset (speech_frame_threshold of them, counted before
\* SpeechStarted) up to the frame that ended the turn.
C31_TurnAudioIncludesOnsetFrames ==
    [][(turn_pc = "idle" /\ turn_pc' = "stt") =>
          LET audio == obs'.stt_audio
              first == obs.onset_at
              last == Len(audio)
          IN  /\ first >= 1
              /\ first + speech_frame_threshold - 1 < last
              /\ audio[last] = captured'
              /\ \A i \in first..last : audio[i] = captured' - (last - i)
              /\ audio = temp_audio']_vars

C31_Witness ==
    /\ turn_pc = "stt"
    /\ obs.onset_at > 1
    /\ Len(obs.stt_audio) > obs.onset_at + speech_frame_threshold
    /\ obs.n_transcribe = 1

\* C32: a loop iteration whose read returned no chunk leaves the detector, the
\* last detection result, the active-turn flag, the metrics and the running
\* flag as they were, and starts no pipeline invocation: the loop is back at
\* its test.
C32_NoChunkIsSkipped ==
    [][(/\ loop_pc = "iter"
        /\ is_running
        /\ recorder'.audio_buffer = recorder.audio_buffer) =>
          /\ vad' = vad
          /\ vad_result' = vad_result
          /\ current_turn_start' = current_turn_start
          /\ metrics' = metrics
          /\ is_running' = is_running
          /\ turn_pc' = turn_pc
          /\ obs'.in_flight = obs.in_flight
          /\ obs'.n_transcribe = obs.n_transcribe
          /\ temp_audio' = temp_audio
          /\ loop_pc' = "iter"]_vars

C32_Witness ==
    /\ obs.skipped_await
    /\ loop_pc = "iter"
    /\ is_running
    /\ vad.is_speaking
    /\ vad.consecutive_silence_frames > 0
    /\ Truthy(current_turn_start)
    /\ metrics.current_turn # <<>>

\* C33: a pipeline invocation in flight is not abandoned: while one is in
\* flight the loop does not return, and the invocation ends only by finalizing
\* its turn, which is then counted in the session totals, exactly once.
C33_InFlightTurnIsFinalized ==
    [][turn_pc # "idle" =>
          /\ loop_pc' \notin {"stopped", "raised"}
          /\ (turn_pc' = "idle" =>
                 /\ Finalizes
                 /\ metrics'.current_turn = <<>>
                 /\ metrics'.total_turns = metrics.total_turns + 1
                 /\ LastTurn'.turn_id = metrics.current_turn[1].turn_id)]_vars

\* The event a step of the loop's detector emitted, "Nothing" when none.
EmittedEvent ==
    IF captured' = captured THEN "Nothing"
    ELSE IF vad_result'.turn_ended THEN "TurnEnded"
    ELSE IF ~vad.is_speaking /\ vad'.is_speaking THEN "SpeechStarted"
    ELSE "Nothing"

\* C34: over the frames the loop feeds its detector (reset() is never called)
\* SpeechStarted and TurnEnded alternate, beginning with SpeechStarted:
\* TurnEnded is emitted only from a speaking detector whose last event was
\* SpeechStarted, SpeechStarted only when no event or TurnEnded came last.
C34_EventsAlternate ==
    [][/\ (EmittedEvent = "TurnEnded" =>
              /\ obs.last_event = "SpeechStarted"
              /\ vad.is_speaking
              /\ ~vad'.is_speaking)
       /\ (EmittedEvent = "SpeechStarted" =>
              /\ obs.last_event \in {"none", "TurnEnded"}
              /\ ~vad_result'.turn_ended)
       /\ (EmittedEvent # "Nothing" => obs'.last_event = EmittedEvent)
       /\ (EmittedEvent = "Nothing" => obs'.last_event = obs.last_event)]_vars

C34_Witness ==
    /\ obs.last_event = "TurnEnded"
    /\ obs.n_turn_ended = 2
    /\ metrics.turn_counter = 2
    /\ ~vad.is_speaking

\* C35: a detector that is not speaking holds no timestamp: speech_start and
\* silence_start are both unset.
C35_IdleHoldsNoTimestamp ==
    ~vad.is_speaking => (vad.speech_start = None /\ vad.silence_start = None)

C35_Witness ==
    /\ ~vad.is_speaking
    /\ hist.event = "TurnEnded"
    /\ hist.last_op = "detect"
    /\ vad.speech_start = None
    /\ vad.silence_start = None
    /\ vad.consecutive_silence_frames > silence_frame_threshold

\* C36: on a metrics collector called in any order, the session's total is
\* the sum of its successful and failed turns and the number of turns it
\* holds, the turn ids it holds are strictly increasing (so distinct), and the
\* total does not exceed turn_counter.
C36_SessionCountsAgree ==
    /\ metrics.total_turns = metrics.successful_turns + metrics.failed_turns
    /\ metrics.total_turns = Len(metrics.turns)
    /\ metrics.successful_turns =
           Cardinality({i \in DOMAIN metrics.turns : metrics.turns[i].success})
    /\ \A i, j \in DOMAIN metrics.turns :
           i < j => metrics.turns[i].turn_id < metrics.turns[j].turn_id
    /\ \A i \in DOMAIN metrics.turns :
           metrics.turns[i].turn_id \in 1..metrics.turn_counter
    /\ metrics.total_turns <= metrics.turn_counter

C36_Witness ==
    /\ metrics.total_turns = 2
    /\ metrics.turn_counter = 3
    /\ metrics.successful_turns = 1
    /\ metrics.failed_turns = 1
    /\ metrics.turns[1].turn_id = 2
    /\ metrics.turns[2].turn_id = 3
    /\ metrics.current_turn = <<>>
    /\ loop_pc = "new"

\* C37: stopping the agent never raises: the loop never ends by an exception
\* out of stop(), whether or not a turn was finalized and whether stop() runs
\* for the first or the second time.
C37_StopNeverRaises ==
    loop_pc # "raised"

\* C38: when a turn is finalized its temporary audio file is gone, whichever
\* way the invocation ended.
C38_TempFileRemovedAtFinalization ==
    [][Finalizes => temp_audio' = <<>>]_vars

\* A history of even length whose entries are user, assistant, user, ...
Alternates(history) ==
    /\ Len(history) % 2 = 0
    /\ \A i \in DOMAIN history :
           history[i].role = IF i % 2 = 1 THEN "user" ELSE "assistant"

\* The entries sent are the last entries of the history, HistoryWindow of them
\* or all when the history is shorter.
IsRecentPart(sent, history) ==
    /\ Len(sent) = IF Len(history) < HistoryWindow THEN Len(history) ELSE HistoryWindow
    /\ \A i \in DOMAIN sent : sent[i] = history[Len(history) - Len(sent) + i]

C40_RecorderLifecycleSafe ==
    [][/\ (~recorder.is_recording =>
              /\ captured' = captured
              /\ \/ recorder'.audio_buffer = recorder.audio_buffer
                 \/ recorder'.is_recording /\ recorder'.audio_buffer = <<>>)
       /\ ((~recorder.is_recording /\ ~recorder'.is_recording) =>
              recorder' = recorder)
       /\ ((recorder.is_recording /\ recorder'.is_recording) =>
              /\ recorder'.stream = recorder.stream
              /\ \/ recorder'.audio_buffer = recorder.audio_buffer
                 \/ recorder'.audio_buffer = Append(recorder.audio_buffer, captured'))
       /\ (recorder.is_recording =>
              SubSeq(recorder'.audio_buffer, 1, Len(recorder.audio_buffer))
                  = recorder.audio_buffer)
       /\ (Len(recorder'.audio_buffer) > Len(recorder.audio_buffer) =>
              /\ recorder.is_recording
              /\ captured' = captured + 1
              /\ recorder'.audio_buffer = Append(recorder.audio_buffer, captured'))
       /\ (captured' # captured =>
              recorder'.audio_buffer = Append(recorder.audio_buffer, captured'))]_vars

C40_Witness ==
    /\ loop_pc = "new"
    /\ recorder.is_recording
    /\ recorder.stream = "open"
    /\ Len(recorder.audio_buffer) = 2
    /\ captured = 5
    /\ recorder.audio_buffer = <<4, 5>>

====
